---- MODULE Spec2Model ----
(***************************************************************************)
(* Model of asset_stream_manager/local_assets_stream_manager_service_impl  *)
(* (cdc-file-transfer): the StartSession / StopSession RPC handlers, the   *)
(* address resolver InitSsh and the helpers ParseInstanceName, ParseValue. *)
(*                                                                         *)
(* A std::string is a sequence of one-character strings.                   *)
(*                                                                         *)
(* Left out, as nothing below depends on them: the request's origin and    *)
(* ConvertOrigin, the command line InitSsh builds (Quoted), the logging,   *)
(* and the SessionStartStatus slot handed to the registry.                 *)
(***************************************************************************)
EXTENDS Integers, Sequences, FiniteSets, TLC

(***************************************************************************)
(* Bounds of the model.                                                    *)
(***************************************************************************)
\* longest instance name, in '/'-separated segments, that is tried
MaxSegs == 11
\* most lines of a text handed to ParseValue on its own
MaxLines == 3
\* most chunks in which the external process delivers its output
MaxChunks == 2
\* request tasks that may run StartSession / StopSession concurrently
\* (StartSession on the first two of them)
NumTasks == 2

(***************************************************************************)
(* Program constants.                                                      *)
(***************************************************************************)
\* number of values of uint16_t: static_cast<uint16_t> reduces modulo it
UINT16_RANGE == 65536
\* <climits> UINT_MAX = 2^32 - 1, compared with int_port in InitSsh.  A
\* 32-bit unsigned value is kept as two 16-bit limbs <<high, low>>.
UINT_MAX == <<UINT16_RANGE - 1, UINT16_RANGE - 1>>
\* std::string::npos, as the "no match" result of find
NPOS == -1

(***************************************************************************)
(* Text helpers.                                                           *)
(***************************************************************************)
Slash == "/"
Colon == ":"
NL == "\n"

\* the vertical tab, a character the string syntax here has no escape for
VT == "<VT>"

\* isspace() in the "C" locale
IsSpace(c) == c \in {" ", "\t", "\n", "\r", "\f", VT}

Digits == <<"0", "1", "2", "3", "4", "5", "6", "7", "8", "9">>

IsDigit(c) == \E i \in 1..10 : Digits[i] = c

DigitVal(c) == (CHOOSE i \in 1..10 : Digits[i] = c) - 1

\* absl::StrSplit(text, sep): the pieces between separators; an empty text
\* gives one empty piece.
StrSplit(text, sep) ==
  LET RECURSIVE F(_, _, _)
      F(i, cur, acc) ==
        IF i > Len(text) THEN Append(acc, cur)
        ELSE IF text[i] = sep THEN F(i + 1, <<>>, Append(acc, cur))
        ELSE F(i + 1, Append(cur, text[i]), acc)
  IN F(1, <<>>, <<>>)

\* pieces joined with sep between them
StrJoin(pieces, sep) ==
  LET RECURSIVE J(_)
      J(i) == IF i > Len(pieces) THEN <<>>
              ELSE IF i = Len(pieces) THEN pieces[i]
              ELSE pieces[i] \o <<sep>> \o J(i + 1)
  IN J(1)

\* std::string::find(pat): 0-based position of the first occurrence, or NPOS
Find(line, pat) ==
  LET n == Len(pat)
      Hits == {p \in 0..(Len(line) - n) : SubSeq(line, p + 1, p + n) = pat}
  IN IF Hits = {} THEN NPOS ELSE CHOOSE p \in Hits : \A q \in Hits : p <= q

\* the lines a std::getline loop over text reads: split at '\n', and no
\* final line when nothing follows the last '\n'
GetLines(text) ==
  LET parts == StrSplit(text, NL)
  IN IF parts[Len(parts)] = <<>> THEN SubSeq(parts, 1, Len(parts) - 1) ELSE parts

(***************************************************************************)
(* ParseInstanceName (lines 37-55).  outs is the record of the three       *)
(* output parameters as they are before the call; the result carries the   *)
(* return value and the output parameters after the call.                  *)
(***************************************************************************)
kOrganizations == <<"o","r","g","a","n","i","z","a","t","i","o","n","s">>
kProjects == <<"p","r","o","j","e","c","t","s">>
kPools == <<"p","o","o","l","s">>
kGamelets == <<"g","a","m","e","l","e","t","s">>

\* the number of segments a name must have
kNumParts == 10

\* PartsOk as it would be with the emptiness test of the last segment forgotten
PartsOkLastUnchecked(parts) ==
  /\ Len(parts) = kNumParts
  /\ ~(parts[1] # kOrganizations \/ parts[2] = <<>>)
  /\ ~(parts[3] # kProjects \/ parts[4] = <<>>)
  /\ ~(parts[5] # kPools \/ parts[6] = <<>>)
  /\ ~(parts[7] # kGamelets \/ parts[8] = <<>> \/ parts[9] = <<>>)

PartsOk(parts) ==
  /\ Len(parts) = kNumParts
  /\ ~(parts[1] # kOrganizations \/ parts[2] = <<>>)
  /\ ~(parts[3] # kProjects \/ parts[4] = <<>>)
  /\ ~(parts[5] # kPools \/ parts[6] = <<>>)
  /\ ~(parts[7] # kGamelets \/ parts[8] = <<>> \/ parts[9] = <<>> \/ parts[10] = <<>>)

ParseInstanceName(instance_name, outs) ==
  LET parts == StrSplit(instance_name, Slash)
  IN IF ~PartsOk(parts)
     THEN [ok |-> FALSE, instance_id |-> outs.instance_id,
           project_id |-> outs.project_id,
           organization_id |-> outs.organization_id]
     ELSE [ok |-> TRUE,
           instance_id |-> parts[8] \o <<Slash>> \o parts[9] \o <<Slash>> \o parts[10],
           project_id |-> parts[4],
           organization_id |-> parts[2]]

(***************************************************************************)
(* ParseValue (lines 60-81).  value is the output parameter before the     *)
(* call; the result carries the return value and the parameter after it.   *)
(***************************************************************************)
\* LineMatches as it would be with find(...) != npos in place of find(...) == 0
LineMatchesAnywhere(line, key) == Find(line, key \o <<Colon>>) # NPOS

\* line 66: the line begins with key + ":"
LineMatches(line, key) == Find(line, key \o <<Colon>>) = 0

\* TrimValue as it would be with the loop of lines 72-75 left out
TrimValueLeadingOnly(line, key) ==
  LET RECURSIVE Fwd(_)
      Fwd(s) == IF s < Len(line) /\ IsSpace(line[s + 1]) THEN Fwd(s + 1) ELSE s
      start_pos == Fwd(Len(key) + 1)
  IN SubSeq(line, start_pos + 1, Len(line))

\* lines 68-76: the text after the colon, whitespace trimmed at both ends
TrimValue(line, key) ==
  LET RECURSIVE Fwd(_)
      Fwd(s) == IF s < Len(line) /\ IsSpace(line[s + 1]) THEN Fwd(s + 1) ELSE s
      start_pos == Fwd(Len(key) + 1)
      RECURSIVE Bwd(_)
      Bwd(e) == IF e > start_pos /\ IsSpace(line[e]) THEN Bwd(e - 1) ELSE e
      end_pos == Bwd(Len(line))
  IN SubSeq(line, start_pos + 1, end_pos)

ParseValue(data, key, value) ==
  LET lines == GetLines(data)
      RECURSIVE Loop(_)
      Loop(i) ==
        IF i > Len(lines) THEN [found |-> FALSE, value |-> value]
        ELSE IF LineMatches(lines[i], key)
             THEN [found |-> TRUE, value |-> TrimValue(lines[i], key)]
             ELSE Loop(i + 1)
  IN Loop(1)

(***************************************************************************)
(* atoi (line 249): leading whitespace, an optional sign, then decimal     *)
(* digits up to the first other character; 0 when there is no digit.  The  *)
(* texts of this model have at most six digits, so the value fits an int.  *)
(***************************************************************************)
atoi(str) ==
  LET RECURSIVE Skip(_)
      Skip(i) == IF i <= Len(str) /\ IsSpace(str[i]) THEN Skip(i + 1) ELSE i
      s == Skip(1)
      neg == s <= Len(str) /\ str[s] = "-"
      d == IF s <= Len(str) /\ str[s] \in {"-", "+"} THEN s + 1 ELSE s
      RECURSIVE Acc(_, _)
      Acc(i, v) == IF i <= Len(str) /\ IsDigit(str[i])
                   THEN Acc(i + 1, 10 * v + DigitVal(str[i])) ELSE v
      mag == Acc(d, 0)
  IN IF neg THEN 0 - mag ELSE mag

\* the usual arithmetic conversion of an int to unsigned int (modulo 2^32)
ToUnsigned(v) == <<(v \div UINT16_RANGE) % UINT16_RANGE, v % UINT16_RANGE>>

\* a > b on unsigned int
UnsignedGreater(a, b) == a[1] > b[1] \/ (a[1] = b[1] /\ a[2] > b[2])

(***************************************************************************)
(* Inputs of the parsing functions when they are exercised on their own.   *)
(***************************************************************************)
kHost == <<"H","o","s","t">>
kPort == <<"P","o","r","t">>

SegIds == {<<"a">>, <<"b","2">>}

ValidSegs(o, p, l, a, b, c) ==
  <<kOrganizations, o, kProjects, p, kPools, l, kGamelets, a, b, c>>

BaseSegs == ValidSegs(<<"o","1">>, <<"p","1">>, <<"l">>, <<"e">>, <<"w">>, <<"x">>)

\* what a segment is replaced with: empty, a plain id, each literal, and
\* near misses of a literal
SegVals ==
  {<<>>, <<"q">>, kOrganizations, kProjects, kPools, kGamelets,
   <<"g","a","m","e","l","e","t">>, <<"P","o","o","l","s">>,
   kProjects \o <<"x">>}

\* segs cut or padded to n segments
Resize(segs, n) == [i \in 1..n |-> IF i <= Len(segs) THEN segs[i] ELSE <<"z">>]

InsertAt(segs, i, v) == SubSeq(segs, 1, i - 1) \o <<v>> \o SubSeq(segs, i, Len(segs))

DeleteAt(segs, i) == SubSeq(segs, 1, i - 1) \o SubSeq(segs, i + 1, Len(segs))

NameSegs ==
  {ValidSegs(o, p, l, a, b, c) : o \in SegIds, p \in SegIds, l \in SegIds,
                                 a \in SegIds, b \in SegIds, c \in SegIds}
  \cup {[BaseSegs EXCEPT ![i] = v] : i \in 1..Len(BaseSegs), v \in SegVals}
  \cup {Resize(BaseSegs, n) : n \in 0..MaxSegs}
  \cup {InsertAt(BaseSegs, i, <<>>) : i \in 1..(Len(BaseSegs) + 1)}
  \cup {DeleteAt(BaseSegs, i) : i \in 1..Len(BaseSegs)}

ClearOuts == [instance_id |-> <<>>, project_id |-> <<>>, organization_id |-> <<>>]

StaleOuts == [instance_id |-> <<"?">>, project_id |-> <<"?">>, organization_id |-> <<"?">>]

ValueLines ==
  { kHost \o <<":", " ", "h">>,
    kHost \o <<":", "\t", " ", "i", " ", "j", " ", "\r">>,
    <<" ">> \o kHost \o <<":", " ", "k">>,
    <<"#">> \o kHost \o <<":", "m">>,
    kHost \o <<"a", "g", "e", ":", " ", "n">>,
    kHost \o <<":">>,
    kPort \o <<":", " ", "2", "2">>,
    kPort \o <<":", "7", " ">>,
    <<>> }

LineSeqs == UNION {[1..n -> ValueLines] : n \in 0..MaxLines}

\* the text with these lines, with or without a newline after the last one
TextOf(lines, term) == StrJoin(lines, NL) \o (IF term THEN <<NL>> ELSE <<>>)

NameCalls ==
  {[fn |-> "ParseInstanceName", ghost |-> segs, text |-> StrJoin(segs, Slash),
    key |-> <<>>, prior |-> outs, done |-> FALSE, ret |-> FALSE, outs |-> outs] :
     segs \in NameSegs, outs \in {ClearOuts, StaleOuts}}

ValueCalls ==
  {[fn |-> "ParseValue", ghost |-> lines, text |-> TextOf(lines, term),
    key |-> key, prior |-> [value |-> <<"?">>], done |-> FALSE, ret |-> FALSE,
    outs |-> [value |-> <<"?">>]] :
     lines \in LineSeqs, term \in BOOLEAN, key \in {kHost, kPort}}

VARIABLES fcall   \* a call of a parsing function on its own: input and result

(***************************************************************************)
(* Status values.  A status is its absl code, the failure it reports and,  *)
(* for a non-zero exit, the exit code put in its message.                  *)
(***************************************************************************)
OkStatus == [code |-> "kOk", what |-> "ok", n |-> 0]

\* ParseNameError as it would be with another error constructor
ParseNameErrorNotFound == [code |-> "kNotFound", what |-> "parse instance name", n |-> 0]

\* absl::InvalidArgumentError("Failed to parse instance name ...") (line 125)
ParseNameError == [code |-> "kInvalidArgument", what |-> "parse instance name", n |-> 0]

\* common/status.h WrapStatus: the same code, with a message put in front
WrapStatus(status, what) == [status EXCEPT !.what = what]

\* common/status.h MakeStatus: an internal error with a formatted message
MakeStatus(what, n) == [code |-> "kInternal", what |-> what, n |-> n]

\* common/grpc_status.h ToGrpcStatus: the grpc code of the same meaning
ToGrpcStatus(status) ==
  CASE status.code = "kOk" -> "OK"
    [] status.code = "kInvalidArgument" -> "INVALID_ARGUMENT"
    [] status.code = "kInternal" -> "INTERNAL"
    [] status.code = "kNotFound" -> "NOT_FOUND"
    [] status.code = "kUnavailable" -> "UNAVAILABLE"
    [] status.code = "kDeadlineExceeded" -> "DEADLINE_EXCEEDED"
    [] status.code = "kFailedPrecondition" -> "FAILED_PRECONDITION"
    [] OTHER -> "UNKNOWN"

(***************************************************************************)
(* Inputs of the request handlers and behaviours of their collaborators.   *)
(***************************************************************************)
Tasks == 1..NumTasks

NameX == StrJoin(BaseSegs, Slash)
NameY == StrJoin(ValidSegs(<<"o","1">>, <<"p","2">>, <<"l">>, <<"a">>, <<"b","2">>, <<"a">>), Slash)
InstX == <<"e", "/", "w", "/", "x">>
InstY == <<"a", "/", "b", "2", "/", "a">>

\* gamelet_name of a StartSession request: two well-formed names, and names
\* with a segment missing, one too many, an empty id, a wrong literal, and
\* the empty name
GameletNames ==
  {NameX, NameY,
   StrJoin(DeleteAt(BaseSegs, 10), Slash),
   StrJoin(Resize(BaseSegs, 11), Slash),
   StrJoin([BaseSegs EXCEPT ![9] = <<>>], Slash),
   StrJoin([BaseSegs EXCEPT ![7] = kPools], Slash),
   <<>>}

\* gamelet_id of a StopSession request
GameletIds == {InstX, InstY, NameX, <<>>}

HostLine(v) == kHost \o <<":", " ">> \o v
PortLine(v) == kPort \o <<":", " ">> \o v

\* what the external tool may print
OutputTexts ==
  {TextOf(<<HostLine(<<"h">>), PortLine(<<"2", "2">>)>>, TRUE),
   TextOf(<<PortLine(<<"2", "2">>), HostLine(<<"h">>)>>, FALSE),
   TextOf(<<<<"x">>, HostLine(<<"h">>), PortLine(<<"1">>), PortLine(<<"2">>)>>, TRUE),
   TextOf(<<HostLine(<<"h">>), PortLine(<<"0">>)>>, TRUE),
   TextOf(<<HostLine(<<"h">>), PortLine(<<"-", "5">>)>>, TRUE),
   TextOf(<<HostLine(<<"h">>), PortLine(<<"6", "5", "5", "3", "5">>)>>, TRUE),
   TextOf(<<HostLine(<<"h">>), PortLine(<<"6", "5", "5", "3", "6">>)>>, TRUE),
   TextOf(<<HostLine(<<"h">>), PortLine(<<"7", "0", "0", "0", "0">>)>>, TRUE),
   TextOf(<<HostLine(<<"h">>), PortLine(<<"1", "3", "1", "0", "9", "4">>)>>, TRUE),
   TextOf(<<HostLine(<<"h">>), PortLine(<<"x">>)>>, TRUE),
   TextOf(<<HostLine(<<"h">>), PortLine(<<"2", "2", "x">>)>>, TRUE),
   TextOf(<<HostLine(<<"h">>), PortLine(<<>>)>>, TRUE),
   TextOf(<<HostLine(<<"h">>)>>, TRUE),
   TextOf(<<PortLine(<<"2", "2">>)>>, TRUE),
   TextOf(<<HostLine(<<" ", "\t">>), PortLine(<<"2", "2">>)>>, TRUE),
   TextOf(<<HostLine(<<"\t", "i", " ", "j", " ", "\r">>), PortLine(<<"2", "2">>)>>, TRUE),
   TextOf(<<kHost \o <<Colon>>, PortLine(<<"2", "2">>)>>, TRUE),
   <<>>}

\* text cut into n pieces of nearly equal length
Cut(text, n) ==
  [i \in 1..n |-> SubSeq(text, ((i - 1) * Len(text)) \div n + 1, (i * Len(text)) \div n)]

\* the chunks in which the output may reach the stdout handler
Scripts(texts) == {Cut(text, n) : text \in texts, n \in 1..MaxChunks}

Concat(chunks) ==
  LET RECURSIVE C(_)
      C(i) == IF i > Len(chunks) THEN <<>> ELSE chunks[i] \o C(i + 1)
  IN C(1)

ExitCodes == {0, 1, 255}

\* codes Process::Start and Process::RunUntilExit may fail with
StartErrors == {[code |-> "kNotFound", what |-> "start", n |-> 0]}
RunErrors == {[code |-> "kDeadlineExceeded", what |-> "run", n |-> 0]}

\* codes SessionManager::StartSession may fail with
RegistryErrors == {[code |-> "kUnavailable", what |-> "registry", n |-> 0],
                   [code |-> "kFailedPrecondition", what |-> "registry", n |-> 0]}

NoMs == "nullptr"
TheMs == "MultiSession"

(***************************************************************************)
(* State.                                                                  *)
(***************************************************************************)
VARIABLES
  pc,        \* where each request task stands
  req,       \* the request a task handles
  st,        \* locals of StartSession / StopSession (lines 119-122, 171)
  evt,       \* the DeveloperLogEvent of a StartSession (lines 108-116)
  ssh,       \* locals of InitSsh: the output accumulator, port_string, int_port
  proc,      \* the Process object InitSsh created, and its reader thread
  sessions,  \* the session registry: instances that have a session
  sink,      \* what the task's request recorded, and where
  ret,       \* the grpc status a task's request returned
  hist       \* per request: the calls made so far

mainvars == <<pc, req, st, evt, ssh, proc, sessions, sink, ret, hist>>
vars == <<pc, req, st, evt, ssh, proc, sessions, sink, ret, hist, fcall>>

NoReq == [op |-> "none", arg |-> <<>>]

NoSt == [status |-> OkStatus, ms |-> NoMs, instance_id |-> <<>>,
         project_id |-> <<>>, organization_id |-> <<>>,
         instance_ip |-> <<>>, instance_port |-> 0]

NoEvt == [absl_status |-> "none", project_id |-> <<>>, organization_id |-> <<>>,
          concurrent_session_count |-> -1, moved |-> FALSE]

NoSsh == [status |-> OkStatus, output |-> <<>>, live |-> FALSE, writers |-> {},
          port_string |-> <<>>, int_port |-> 0]

NoProc == [state |-> "none", script |-> <<>>, pending |-> <<>>, busy |-> FALSE,
           start |-> OkStatus, exit_code |-> 0, acc |-> 0]

NoSink == [to |-> {}, absl_status |-> "none", instance_id |-> <<>>,
           concurrent_session_count |-> -1]

NoHist == [parseName |-> 0, parseOk |-> FALSE, create |-> 0, start |-> 0,
           parseValue |-> 0, regStart |-> 0, regStop |-> 0, regArg |-> <<>>,
           regStatus |-> OkStatus, hasSession |-> FALSE,
           recEvent |-> 0, recSession |-> 0, recMulti |-> 0,
           stamps |-> 0, returns |-> 0, run |-> "none", sshReturns |-> 0,
           sshStatus |-> OkStatus]

NoCall == [fn |-> "none", ghost |-> <<>>, text |-> <<>>, key |-> <<>>,
           prior |-> <<>>, done |-> FALSE, ret |-> FALSE, outs |-> <<>>]

MainIdle ==
  /\ pc = [t \in Tasks |-> "idle"]
  /\ req = [t \in Tasks |-> NoReq]
  /\ st = [t \in Tasks |-> NoSt]
  /\ evt = [t \in Tasks |-> NoEvt]
  /\ ssh = [t \in Tasks |-> NoSsh]
  /\ proc = [t \in Tasks |-> NoProc]
  /\ sessions = {}
  /\ sink = [t \in Tasks |-> NoSink]
  /\ ret = [t \in Tasks |-> "none"]
  /\ hist = [t \in Tasks |-> NoHist]

Init == MainIdle /\ fcall = NoCall

(***************************************************************************)
(* The session registry (SessionManager and its MultiSession), as the      *)
(* handlers use it.                                                        *)
(***************************************************************************)
\* SessionManager::StartSession: it may establish the session and hand out
\* the MultiSession, or fail, with or without handing out the MultiSession.
RegistryStartOutcomes(instance_id, S) ==
  {[status |-> OkStatus, ms |-> TheMs, sessions |-> S \cup {instance_id}]}
  \cup {[status |-> e, ms |-> m, sessions |-> S] :
          e \in RegistryErrors, m \in {TheMs, NoMs}}

\* SessionManager::StopSession: ends the session of that instance, if any
RegistryStop(instance_id, S) ==
  IF instance_id \in S
  THEN [status |-> OkStatus, sessions |-> S \ {instance_id}]
  ELSE [status |-> [code |-> "kNotFound", what |-> "registry", n |-> 0],
        sessions |-> S]

HasSessionForInstance(S, instance_id) == instance_id \in S

GetSessionCount(S) == Cardinality(S)

(***************************************************************************)
(* StartSession (lines 102-164).                                           *)
(***************************************************************************)
\* A StartSession request arrives: the event and the locals are set up
\* (lines 105-122).
StartSessionRequest(t, names) ==
  /\ pc[t] \in {"idle", "done"}
  /\ \E name \in names : req' = [req EXCEPT ![t] = [op |-> "start", arg |-> name]]
  /\ evt' = [evt EXCEPT ![t] = [NoEvt EXCEPT !.absl_status = "kOk"]]
  /\ st' = [st EXCEPT ![t] = NoSt]
  /\ ssh' = [ssh EXCEPT ![t] = NoSsh]
  /\ proc' = [proc EXCEPT ![t] = NoProc]
  /\ sink' = [sink EXCEPT ![t] = NoSink]
  /\ ret' = [ret EXCEPT ![t] = "none"]
  /\ hist' = [hist EXCEPT ![t] = NoHist]
  /\ pc' = [pc EXCEPT ![t] = "parse"]
  /\ UNCHANGED <<sessions, fcall>>

\* Lines 123-129: the name is parsed; on failure the status is
\* InvalidArgument and the resolver and the registry are skipped.
StartSessionParse(t) ==
  /\ pc[t] = "parse"
  /\ LET r == ParseInstanceName(req[t].arg,
                                [instance_id |-> st[t].instance_id,
                                 project_id |-> st[t].project_id,
                                 organization_id |-> st[t].organization_id])
     IN /\ st' = [st EXCEPT ![t].instance_id = r.instance_id,
                            ![t].project_id = r.project_id,
                            ![t].organization_id = r.organization_id,
                            ![t].status = IF r.ok THEN @ ELSE ParseNameError]
        /\ evt' = [evt EXCEPT ![t].project_id = IF r.ok THEN r.project_id ELSE @,
                              ![t].organization_id =
                                 IF r.ok THEN r.organization_id ELSE @]
        /\ hist' = [hist EXCEPT ![t].parseName = @ + 1, ![t].parseOk = r.ok]
        /\ pc' = [pc EXCEPT ![t] = IF r.ok THEN "ssh_create" ELSE "stamp"]
  /\ UNCHANGED <<req, ssh, proc, sessions, sink, ret, fcall>>

(***************************************************************************)
(* InitSsh (lines 194-257) and the external process.                       *)
(***************************************************************************)
\* InitSshAfterStart as it would be with the wait for the exit left out
InitSshNoWait == "ssh_exit"

\* where InitSsh goes once Process::Start returned OK: it waits for the exit
InitSshAfterStart == "ssh_run"

\* CapturedOutput as it would be if the handler appended to one accumulator
\* kept in the service object
CapturedOutputShared(t) == 1

\* line 216: the handler captures the local output of its own invocation
\* by reference; accumulators are named by the task that owns them
CapturedOutput(t) == t

\* Lines 198-228: the outputs are cleared, the accumulator and the process
\* are created and the process is started.
InitSshCreate(t, scripts, codes) ==
  /\ pc[t] = "ssh_create"
  /\ st' = [st EXCEPT ![t].instance_ip = <<>>, ![t].instance_port = 0]
  /\ hist' = [hist EXCEPT ![t].create = @ + 1, ![t].start = @ + 1]
  /\ \/ \E e \in StartErrors :
          /\ proc' = [proc EXCEPT ![t] = [NoProc EXCEPT !.state = "failed", !.start = e]]
          /\ ssh' = [ssh EXCEPT ![t] =
                       [NoSsh EXCEPT !.live = TRUE,
                          !.status = WrapStatus(e, "Failed to start ggp process")]]
          /\ pc' = [pc EXCEPT ![t] = "ssh_return"]
     \/ \E script \in scripts, code \in codes :
          /\ proc' = [proc EXCEPT ![t] =
                        [NoProc EXCEPT !.state = "running", !.script = script,
                           !.pending = script, !.exit_code = code,
                           !.acc = CapturedOutput(t)]]
          /\ ssh' = [ssh EXCEPT ![t] = [NoSsh EXCEPT !.live = TRUE]]
          /\ pc' = [pc EXCEPT ![t] = InitSshAfterStart]
  /\ UNCHANGED <<req, evt, sessions, sink, ret, fcall>>

\* The reader thread of the process has a chunk and invokes the handler.
ProcessReadOutput(t) ==
  /\ proc[t].state \in {"running", "exited"}
  /\ proc[t].pending # <<>> /\ ~proc[t].busy
  /\ proc' = [proc EXCEPT ![t].busy = TRUE]
  /\ UNCHANGED <<pc, req, st, evt, ssh, sessions, sink, ret, hist, fcall>>

\* Lines 216-221: the stdout handler appends the chunk, on the reader thread.
StdoutHandler(t) ==
  /\ proc[t].busy
  /\ ssh' = [ssh EXCEPT ![proc[t].acc].output = @ \o Head(proc[t].pending),
                        ![proc[t].acc].writers = @ \cup {t}]
  /\ proc' = [proc EXCEPT ![t].pending = Tail(@), ![t].busy = FALSE]
  /\ UNCHANGED <<pc, req, st, evt, sessions, sink, ret, hist, fcall>>

\* The external tool exits; output it wrote may still be on its way.
ProcessExit(t) ==
  /\ proc[t].state = "running"
  /\ proc' = [proc EXCEPT ![t].state = "exited"]
  /\ UNCHANGED <<pc, req, st, evt, ssh, sessions, sink, ret, hist, fcall>>

\* Process::RunUntilExit returns OK once the process has exited and its
\* output has been handed to the handler.
RunUntilExitDone(p) == p.state = "exited" /\ p.pending = <<>> /\ ~p.busy

\* Lines 230-233: wait for the exit; a failed wait ends the resolver.
InitSshRunUntilExit(t) ==
  /\ pc[t] = "ssh_run"
  /\ \/ /\ RunUntilExitDone(proc[t])
        /\ pc' = [pc EXCEPT ![t] = "ssh_exit"]
        /\ hist' = [hist EXCEPT ![t].run = "ok"]
        /\ ssh' = ssh
     \/ \E e \in RunErrors :
          /\ ssh' = [ssh EXCEPT ![t].status = WrapStatus(e, "Failed to run ggp process")]
          /\ hist' = [hist EXCEPT ![t].run = "error"]
          /\ pc' = [pc EXCEPT ![t] = "ssh_return"]
  /\ UNCHANGED <<req, st, evt, proc, sessions, sink, ret, fcall>>

\* ExitFailed as it would be if only codes above 1 counted as failures
ExitFailedAboveOne(exit_code) == exit_code > 1

\* line 236
ExitFailed(exit_code) == exit_code # 0

\* Lines 235-238: a non-zero exit code ends the resolver.
InitSshExitCode(t) ==
  /\ pc[t] = "ssh_exit"
  /\ LET exit_code == proc[t].exit_code
     IN IF ExitFailed(exit_code)
        THEN /\ ssh' = [ssh EXCEPT ![t].status =
                          MakeStatus("ggp process exited with code", exit_code)]
             /\ pc' = [pc EXCEPT ![t] = "ssh_return"]
        ELSE /\ ssh' = ssh
             /\ pc' = [pc EXCEPT ![t] = "ssh_host"]
  /\ UNCHANGED <<req, st, evt, proc, sessions, sink, ret, hist, fcall>>

\* Lines 240-244: the host is parsed from the accumulated output, straight
\* into *instance_ip.
InitSshParseHost(t) ==
  /\ pc[t] = "ssh_host"
  /\ LET r == ParseValue(ssh[t].output, kHost, st[t].instance_ip)
     IN /\ st' = [st EXCEPT ![t].instance_ip = r.value]
        /\ IF ~r.found
           THEN /\ ssh' = [ssh EXCEPT ![t].status =
                             MakeStatus("Failed to parse host", 0)]
                /\ pc' = [pc EXCEPT ![t] = "ssh_return"]
           ELSE /\ ssh' = ssh
                /\ pc' = [pc EXCEPT ![t] = "ssh_port"]
  /\ hist' = [hist EXCEPT ![t].parseValue = @ + 1]
  /\ UNCHANGED <<req, evt, proc, sessions, sink, ret, fcall>>

\* line 250: the port is refused
PortRejected(result, int_port) ==
  \/ ~result
  \/ int_port = 0
  \/ int_port <= 0
  \/ UnsignedGreater(ToUnsigned(int_port), UINT_MAX)

\* Lines 246-256: the port is parsed, checked and narrowed to uint16_t.
InitSshParsePort(t) ==
  /\ pc[t] = "ssh_port"
  /\ LET r == ParseValue(ssh[t].output, kPort, <<>>)
         port_string == r.value
         int_port == atoi(port_string)
     IN IF PortRejected(r.found, int_port)
        THEN /\ ssh' = [ssh EXCEPT ![t].port_string = port_string,
                                   ![t].int_port = int_port,
                                   ![t].status = MakeStatus("Failed to parse ssh port", 0)]
             /\ st' = st
        ELSE /\ ssh' = [ssh EXCEPT ![t].port_string = port_string,
                                   ![t].int_port = int_port,
                                   ![t].status = OkStatus]
             /\ st' = [st EXCEPT ![t].instance_port = int_port % UINT16_RANGE]
  /\ hist' = [hist EXCEPT ![t].parseValue = @ + 1]
  /\ pc' = [pc EXCEPT ![t] = "ssh_return"]
  /\ UNCHANGED <<req, evt, proc, sessions, sink, ret, fcall>>

\* DestroyOrder as it would be with process declared before output
DestroyOrderOutputFirst == <<"output", "process">>

\* the locals of InitSsh go out of scope in the reverse order of their
\* declarations: process (line 224) before output (line 215)
DestroyOrder == <<"process", "output">>

\* The k-th of these locals is destroyed.  ~Process waits for a running
\* handler and lets none start afterwards.
InitSshDestroy(t, k) ==
  IF DestroyOrder[k] = "process"
  THEN /\ ~proc[t].busy
       /\ proc' = [proc EXCEPT ![t].state = "destroyed", ![t].pending = <<>>]
       /\ ssh' = ssh
  ELSE /\ ssh' = [ssh EXCEPT ![t].live = FALSE, ![t].output = <<>>]
       /\ proc' = proc

\* InitSsh leaves: the first of its locals is destroyed.
InitSshReturn(t) ==
  /\ pc[t] = "ssh_return"
  /\ InitSshDestroy(t, 1)
  /\ pc' = [pc EXCEPT ![t] = "ssh_unwind"]
  /\ UNCHANGED <<req, st, evt, sessions, sink, ret, hist, fcall>>

\* The other local is destroyed and InitSsh has returned its status.
InitSshUnwind(t) ==
  /\ pc[t] = "ssh_unwind"
  /\ InitSshDestroy(t, 2)
  /\ st' = [st EXCEPT ![t].status = ssh[t].status]
  /\ hist' = [hist EXCEPT ![t].sshReturns = @ + 1, ![t].sshStatus = ssh[t].status]
  /\ pc' = [pc EXCEPT ![t] = "registry"]
  /\ UNCHANGED <<req, evt, sessions, sink, ret, fcall>>

\* RegistryReached as it would be with the test of the resolver's status left out
RegistryReachedAlways(status) == TRUE

\* line 134: status.ok() after InitSsh
RegistryReached(status) == status.code = "kOk"

\* Lines 134-139: with an address, the registry's StartSession is called.
StartSessionRegistry(t) ==
  /\ pc[t] = "registry"
  /\ IF RegistryReached(st[t].status)
     THEN \E o \in RegistryStartOutcomes(st[t].instance_id, sessions) :
            /\ st' = [st EXCEPT ![t].status = o.status, ![t].ms = o.ms]
            /\ sessions' = o.sessions
            /\ hist' = [hist EXCEPT ![t].regStart = @ + 1,
                                    ![t].regArg = st[t].instance_id,
                                    ![t].regStatus = o.status]
     ELSE UNCHANGED <<st, sessions, hist>>
  /\ pc' = [pc EXCEPT ![t] = "stamp"]
  /\ UNCHANGED <<req, evt, ssh, proc, sink, ret, fcall>>

\* Dispatch as it would be with the final else left out: the global sink is
\* called as well
DispatchAlsoGlobal(ms, instance_id, has_session) ==
  (IF ms # NoMs
   THEN IF instance_id # <<>> /\ has_session THEN {"session"} ELSE {"multi"}
   ELSE {}) \cup {"global"}

\* Dispatch as it would be with the per-instance test left out
DispatchNeverSession(ms, instance_id, has_session) ==
  IF ms # NoMs THEN {"multi"} ELSE {"global"}

\* Lines 143-156: the sinks the event is recorded to
Dispatch(ms, instance_id, has_session) ==
  IF ms # NoMs
  THEN IF instance_id # <<>> /\ has_session THEN {"session"} ELSE {"multi"}
  ELSE {"global"}

\* StampedCode as it would be with the assignment of line 142 left out: the
\* event keeps the code it was constructed with (line 112)
StampedCodeDefault(status) == "kOk"

\* line 142: the code the event is stamped with
StampedCode(status) == status.code

\* Lines 142-156: the event gets the final status code and, with a
\* MultiSession, the session count, and is recorded.
StartSessionRecord(t) ==
  /\ pc[t] = "stamp"
  /\ LET ms == st[t].ms
         has == HasSessionForInstance(sessions, st[t].instance_id)
         count == IF ms # NoMs THEN GetSessionCount(sessions)
                  ELSE evt[t].concurrent_session_count
         to == Dispatch(ms, st[t].instance_id, has)
         In(x) == IF x \in to THEN 1 ELSE 0
     IN /\ evt' = [evt EXCEPT ![t].absl_status = StampedCode(st[t].status),
                              ![t].concurrent_session_count = count,
                              ![t].moved = to # {}]
        /\ sink' = [sink EXCEPT ![t] =
                      [to |-> to, absl_status |-> StampedCode(st[t].status),
                       instance_id |-> IF "session" \in to THEN st[t].instance_id
                                       ELSE <<>>,
                       concurrent_session_count |-> count]]
        /\ hist' = [hist EXCEPT ![t].stamps = @ + 1,
                                ![t].hasSession = has,
                                ![t].recEvent = @ + In("global"),
                                ![t].recSession = @ + In("session"),
                                ![t].recMulti = @ + In("multi")]
  /\ pc' = [pc EXCEPT ![t] = "return"]
  /\ UNCHANGED <<req, st, ssh, proc, sessions, ret, fcall>>

\* Lines 158-163: the status is logged and returned.
StartSessionReturn(t) ==
  /\ pc[t] = "return"
  /\ ret' = [ret EXCEPT ![t] = ToGrpcStatus(st[t].status)]
  /\ hist' = [hist EXCEPT ![t].returns = @ + 1]
  /\ pc' = [pc EXCEPT ![t] = "done"]
  /\ UNCHANGED <<req, st, evt, ssh, proc, sessions, sink, fcall>>

(***************************************************************************)
(* StopSession (lines 166-178).                                            *)
(***************************************************************************)
\* A StopSession request arrives.
StopSessionRequest(t, ids) ==
  /\ pc[t] \in {"idle", "done"}
  /\ \E id \in ids : req' = [req EXCEPT ![t] = [op |-> "stop", arg |-> id]]
  /\ evt' = [evt EXCEPT ![t] = NoEvt]
  /\ st' = [st EXCEPT ![t] = NoSt]
  /\ ssh' = [ssh EXCEPT ![t] = NoSsh]
  /\ proc' = [proc EXCEPT ![t] = NoProc]
  /\ sink' = [sink EXCEPT ![t] = NoSink]
  /\ ret' = [ret EXCEPT ![t] = "none"]
  /\ hist' = [hist EXCEPT ![t] = NoHist]
  /\ pc' = [pc EXCEPT ![t] = "stop_call"]
  /\ UNCHANGED <<sessions, fcall>>

\* StopSessionKey as it would be if the id were parsed like a gamelet name
StopSessionKeyParsed(gamelet_id) ==
  LET r == ParseInstanceName(gamelet_id, ClearOuts)
  IN IF r.ok THEN r.instance_id ELSE gamelet_id

\* line 171: what the registry's StopSession is given
StopSessionKey(gamelet_id) == gamelet_id

\* Line 171: the registry's StopSession is called with the request's id.
StopSessionCall(t) ==
  /\ pc[t] = "stop_call"
  /\ LET key == StopSessionKey(req[t].arg)
         r == RegistryStop(key, sessions)
     IN /\ st' = [st EXCEPT ![t].status = r.status]
        /\ sessions' = r.sessions
        /\ hist' = [hist EXCEPT ![t].regStop = @ + 1, ![t].regArg = key,
                                ![t].regStatus = r.status]
  /\ pc' = [pc EXCEPT ![t] = "stop_return"]
  /\ UNCHANGED <<req, evt, ssh, proc, sink, ret, fcall>>

\* Lines 172-177: the status is logged and returned.
StopSessionReturn(t) ==
  /\ pc[t] = "stop_return"
  /\ ret' = [ret EXCEPT ![t] = ToGrpcStatus(st[t].status)]
  /\ hist' = [hist EXCEPT ![t].returns = @ + 1]
  /\ pc' = [pc EXCEPT ![t] = "done"]
  /\ UNCHANGED <<req, st, evt, ssh, proc, sessions, sink, fcall>>

(***************************************************************************)
(* Specifications.                                                         *)
(***************************************************************************)
\* One task serves requests one after the other; within a request the
\* process and its reader thread run beside InitSsh.
Next ==
  \/ StartSessionRequest(1, GameletNames)
  \/ StartSessionParse(1)
  \/ InitSshCreate(1, Scripts(OutputTexts), ExitCodes)
  \/ ProcessReadOutput(1)
  \/ StdoutHandler(1)
  \/ ProcessExit(1)
  \/ InitSshRunUntilExit(1)
  \/ InitSshExitCode(1)
  \/ InitSshParseHost(1)
  \/ InitSshParsePort(1)
  \/ InitSshReturn(1)
  \/ InitSshUnwind(1)
  \/ StartSessionRegistry(1)
  \/ StartSessionRecord(1)
  \/ StartSessionReturn(1)
  \/ StopSessionRequest(1, GameletIds)
  \/ StopSessionCall(1)
  \/ StopSessionReturn(1)

Spec == Init /\ [][Next]_vars

\* inputs of the requests that run side by side
ConcNames == {NameX}
ConcIds == {InstX}
ConcScripts == {Cut(TextOf(<<HostLine(<<"h">>), PortLine(<<"2", "2">>)>>, TRUE), MaxChunks)}
ConcExitCodes == {0, 1}

\* the tasks that may serve StartSession requests, each with a resolver of
\* its own; every task may serve StopSession requests
Resolvers == {t \in Tasks : t <= 2}

\* A StartSession request arrives at a task that serves them.
ResolverRequest(t) == t \in Resolvers /\ StartSessionRequest(t, ConcNames)

\* what one task may do
TaskStep(t) ==
  \/ ResolverRequest(t)
  \/ StartSessionParse(t)
  \/ InitSshCreate(t, ConcScripts, ConcExitCodes)
  \/ ProcessReadOutput(t)
  \/ StdoutHandler(t)
  \/ ProcessExit(t)
  \/ InitSshRunUntilExit(t)
  \/ InitSshExitCode(t)
  \/ InitSshParseHost(t)
  \/ InitSshParsePort(t)
  \/ InitSshReturn(t)
  \/ InitSshUnwind(t)
  \/ StartSessionRegistry(t)
  \/ StartSessionRecord(t)
  \/ StartSessionReturn(t)
  \/ StopSessionRequest(t, ConcIds)
  \/ StopSessionCall(t)
  \/ StopSessionReturn(t)

NextConc == \E t \in Tasks : TaskStep(t)

\* One task per request in flight: the tasks run side by side, each with
\* its own process and reader thread, on the one registry.
SpecConc == Init /\ [][NextConc]_vars

\* ParseInstanceName is called on the drawn name.
CallParseInstanceName ==
  /\ fcall.fn = "ParseInstanceName" /\ ~fcall.done
  /\ LET r == ParseInstanceName(fcall.text, fcall.prior)
     IN fcall' = [fcall EXCEPT !.done = TRUE, !.ret = r.ok,
                    !.outs = [instance_id |-> r.instance_id,
                              project_id |-> r.project_id,
                              organization_id |-> r.organization_id]]
  /\ UNCHANGED mainvars

\* ParseValue is called on the drawn text and key.
CallParseValue ==
  /\ fcall.fn = "ParseValue" /\ ~fcall.done
  /\ LET r == ParseValue(fcall.text, fcall.key, fcall.prior.value)
     IN fcall' = [fcall EXCEPT !.done = TRUE, !.ret = r.found,
                    !.outs = [value |-> r.value]]
  /\ UNCHANGED mainvars

InitParse == MainIdle /\ (fcall \in NameCalls \/ fcall \in ValueCalls)

NextParse == CallParseInstanceName \/ CallParseValue

\* The parsing functions on their own, on drawn inputs.
SpecParse == InitParse /\ [][NextParse]_vars

(***************************************************************************)
(* Properties.                                                             *)
(***************************************************************************)
\* a name's segments follow the template organizations/o/projects/p/pools/l/
\* gamelets/a/b/c
SegsWellFormed(segs) ==
  /\ Len(segs) = 10
  /\ segs[1] = kOrganizations /\ segs[3] = kProjects
  /\ segs[5] = kPools /\ segs[7] = kGamelets
  /\ \A i \in {2, 4, 6, 8, 9, 10} : segs[i] # <<>>

\* C7: ParseInstanceName succeeds exactly on the names whose 10 segments
\* follow the template with non-empty ids; on success organization_id is
\* segment 1, project_id segment 3 and instance_id segments 7,8,9 joined by
\* '/' (0-based); on failure the three outputs keep the values they had.
C7_ParseInstanceName ==
  (fcall.fn = "ParseInstanceName" /\ fcall.done) =>
    LET segs == fcall.ghost
    IN /\ fcall.ret <=> SegsWellFormed(segs)
       /\ fcall.ret =>
            /\ fcall.outs.organization_id = segs[2]
            /\ fcall.outs.project_id = segs[4]
            /\ fcall.outs.instance_id = StrJoin(<<segs[8], segs[9], segs[10]>>, Slash)
       /\ ~fcall.ret => fcall.outs = fcall.prior

\* a well-formed name was parsed over stale outputs
C7_Witness ==
  /\ fcall.fn = "ParseInstanceName" /\ fcall.done /\ fcall.ret
  /\ fcall.prior = StaleOuts
  /\ fcall.outs.instance_id = <<"a", "/", "b", "2", "/", "a">>

\* line begins, at column 0, with key followed by ':'
BeginsWithKey(line, key) ==
  /\ Len(line) >= Len(key) + 1
  /\ SubSeq(line, 1, Len(key)) = key
  /\ line[Len(key) + 1] = Colon

\* the lines of the text, by number, that begin with the key
KeyLines(lines, key) == {i \in 1..Len(lines) : BeginsWithKey(lines[i], key)}

\* C8: ParseValue reports not-found exactly when no line begins with
\* key ':' at column 0, and otherwise returns what the first such line alone
\* gives, whatever lines follow it.
C8_ParseValueFirstMatch ==
  (fcall.fn = "ParseValue" /\ fcall.done) =>
    LET M == KeyLines(fcall.ghost, fcall.key)
    IN /\ fcall.ret <=> M # {}
       /\ fcall.ret =>
            LET first == CHOOSE i \in M : \A j \in M : i <= j
            IN fcall.outs.value =
                 ParseValue(fcall.ghost[first], fcall.key, <<>>).value
       /\ ~fcall.ret => fcall.outs = fcall.prior

\* a text with two lines for the key, with different values, after a line
\* that has the key behind another character
C8_Witness ==
  /\ fcall.fn = "ParseValue" /\ fcall.done /\ fcall.ret
  /\ fcall.key = kHost
  /\ Len(fcall.ghost) = 3
  /\ KeyLines(fcall.ghost, kHost) = {2, 3}
  /\ Find(fcall.ghost[1], kHost \o <<Colon>>) > 0
  /\ fcall.outs.value = <<"h">>
  /\ ParseValue(fcall.ghost[3], kHost, <<>>).value # <<"h">>

StartTasks == {t \in Tasks : req[t].op = "start"}
StopTasks == {t \in Tasks : req[t].op = "stop"}

\* recording calls a request has made, over the three sinks
Recorded(t) == hist[t].recEvent + hist[t].recSession + hist[t].recMulti

\* C1: a StartSession request makes at most one recording call over the
\* three sinks, and has made exactly one by the time it returns, on every
\* path.
C1_ExactlyOneRecord ==
  \A t \in StartTasks :
    /\ Recorded(t) <= 1
    /\ pc[t] \in {"parse", "ssh_create", "ssh_run", "ssh_exit", "ssh_host",
                  "ssh_port", "ssh_return", "registry", "stamp"} => Recorded(t) = 0
    /\ pc[t] \in {"return", "done"} => Recorded(t) = 1
    /\ ret[t] # "none" => Recorded(t) = 1

\* a request whose registry call failed has returned, after recording to
\* the aggregate sink
C1_Witness ==
  \E t \in StartTasks :
    /\ pc[t] = "done" /\ hist[t].regStart = 1 /\ st[t].status.code # "kOk"
    /\ hist[t].recMulti = 1

\* C2: the sink is decided by the handle and by what HasSessionForInstance
\* says of the instance id alone: global without a handle, per-instance (for
\* that instance id) with a handle that has the session, aggregate with a
\* handle that has not; a handle comes only with a parsed, non-empty id.
C2_SinkDecision ==
  \A t \in StartTasks :
    pc[t] \in {"return", "done"} =>
      /\ sink[t].to = (IF st[t].ms = NoMs THEN {"global"}
                       ELSE IF hist[t].hasSession THEN {"session"}
                       ELSE {"multi"})
      /\ "session" \in sink[t].to => sink[t].instance_id = st[t].instance_id
      /\ st[t].ms # NoMs => hist[t].parseOk /\ st[t].instance_id # <<>>

\* a failed start is recorded per instance: the handle has a session of the
\* instance from an earlier request
C2_Witness ==
  \E t \in StartTasks :
    /\ pc[t] = "done" /\ sink[t].to = {"session"}
    /\ sink[t].instance_id = InstY
    /\ st[t].status.code = "kUnavailable"

\* C3: a failed parse leaves the process and the registry untouched, a
\* failed resolution leaves the registry untouched, the registry is called
\* once exactly when both succeeded, and the stamping, the recording and
\* the response happen once on every path.
C3_ShortCircuit ==
  \A t \in StartTasks :
    /\ hist[t].parseName <= 1 /\ hist[t].regStart <= 1
    /\ hist[t].stamps <= 1 /\ hist[t].returns <= 1
    /\ (hist[t].parseName = 1 /\ ~hist[t].parseOk) =>
         hist[t].create = 0 /\ hist[t].start = 0 /\ hist[t].regStart = 0
    /\ (hist[t].sshReturns = 1 /\ hist[t].sshStatus.code # "kOk") =>
         hist[t].regStart = 0
    /\ pc[t] \in {"stamp", "return", "done"} =>
         (hist[t].regStart = 1 <=>
            hist[t].parseOk /\ hist[t].sshReturns = 1 /\ hist[t].sshStatus.code = "kOk")
    /\ pc[t] = "done" =>
         hist[t].stamps = 1 /\ Recorded(t) = 1 /\ hist[t].returns = 1

\* a request whose resolver failed has returned without a registry call
C3_Witness ==
  \E t \in StartTasks :
    /\ pc[t] = "done" /\ hist[t].parseOk
    /\ hist[t].sshReturns = 1 /\ hist[t].sshStatus.what = "Failed to parse host"
    /\ hist[t].regStart = 0 /\ ret[t] = "INTERNAL"

\* C4: a resolver that returned OK has a port in 1..65535 that is the
\* integer parsed from the Port field.
C4_PortInRange ==
  \A t \in StartTasks :
    (hist[t].sshReturns = 1 /\ hist[t].sshStatus.code = "kOk") =>
      /\ st[t].instance_port \in 1..65535
      /\ st[t].instance_port = ssh[t].int_port

\* C5: a request that did not reach the registry has no handle and records
\* to the global sink alone; for a malformed name the event and the
\* response carry InvalidArgument.
C5_NoRegistryGlobalSink ==
  \A t \in StartTasks :
    /\ hist[t].regStart = 0 => st[t].ms = NoMs
    /\ (pc[t] \in {"return", "done"} /\ hist[t].regStart = 0) =>
         /\ sink[t].to = {"global"}
         /\ hist[t].recEvent = 1 /\ hist[t].recSession = 0 /\ hist[t].recMulti = 0
    /\ (pc[t] \in {"return", "done"} /\ ~hist[t].parseOk) =>
         /\ hist[t].regStart = 0
         /\ sink[t].absl_status = "kInvalidArgument"
    /\ (pc[t] = "done" /\ ~hist[t].parseOk) => ret[t] = "INVALID_ARGUMENT"

\* a request with a nine-segment name has returned while the registry has
\* a session
C5_Witness ==
  \E t \in StartTasks :
    /\ pc[t] = "done" /\ ~hist[t].parseOk
    /\ Len(StrSplit(req[t].arg, Slash)) = 9
    /\ sessions # {}
    /\ sink[t].to = {"global"}

\* C6: when the process ran to its exit and the exit code is not 0, the
\* resolver returns an error that carries the exit code, whatever the
\* output was, and ParseValue is never called.
C6_NonZeroExit ==
  \A t \in StartTasks :
    (hist[t].run = "ok" /\ proc[t].exit_code # 0) =>
      /\ hist[t].parseValue = 0
      /\ pc[t] \notin {"ssh_host", "ssh_port"}
      /\ hist[t].sshReturns = 1 =>
           /\ hist[t].sshStatus.code # "kOk"
           /\ hist[t].sshStatus.what = "ggp process exited with code"
           /\ hist[t].sshStatus.n = proc[t].exit_code

\* the resolver has returned after an exit with code 1 and an output that
\* has a Host and a Port line
C6_Witness ==
  \E t \in StartTasks :
    /\ hist[t].sshReturns = 1 /\ hist[t].run = "ok" /\ proc[t].exit_code = 1
    /\ ParseValue(Concat(proc[t].script), kHost, <<>>).value = <<"h">>
    /\ ParseValue(Concat(proc[t].script), kPort, <<>>).value = <<"2", "2">>
    /\ hist[t].sshStatus.n = 1

\* C9: StopSession calls the registry's StopSession once, with the
\* request's gamelet_id as it is, returns the status of that call, parses
\* no name, creates no process and records to no sink.
C9_StopSessionDelegates ==
  \A t \in StopTasks :
    /\ hist[t].parseName = 0 /\ hist[t].create = 0 /\ hist[t].start = 0
    /\ hist[t].parseValue = 0 /\ hist[t].regStart = 0
    /\ Recorded(t) = 0 /\ sink[t].to = {}
    /\ hist[t].regStop <= 1
    /\ pc[t] \in {"stop_return", "done"} =>
         hist[t].regStop = 1 /\ hist[t].regArg = req[t].arg
    /\ pc[t] = "done" => ret[t] = ToGrpcStatus(hist[t].regStatus)

\* a StopSession with a full gamelet name has returned NOT_FOUND while the
\* registry has a session of the instance that name would parse to
C9_Witness ==
  \E t \in StopTasks :
    /\ pc[t] = "done" /\ req[t].arg = NameX
    /\ InstX \in sessions /\ ret[t] = "NOT_FOUND"

\* C10: whenever the resolver is about to read the accumulator, the process
\* has exited, no chunk is undelivered, no handler is running, and the
\* accumulator holds all chunks in delivery order.
C10_ReadAfterExit ==
  \A t \in StartTasks :
    pc[t] \in {"ssh_host", "ssh_port"} =>
      /\ hist[t].run = "ok"
      /\ proc[t].state = "exited"
      /\ proc[t].pending = <<>> /\ ~proc[t].busy
      /\ ssh[t].live
      /\ ssh[t].output = Concat(proc[t].script)

\* the resolver is about to read an output that came in two chunks
C10_Witness ==
  \E t \in StartTasks :
    /\ pc[t] = "ssh_host"
    /\ Len(proc[t].script) = 2
    /\ proc[t].script[1] # <<>> /\ proc[t].script[2] # <<>>
    /\ ssh[t].output = proc[t].script[1] \o proc[t].script[2]

\* an absl code and the grpc code of the same meaning
CodePairs ==
  {<<"kOk", "OK">>, <<"kInvalidArgument", "INVALID_ARGUMENT">>,
   <<"kInternal", "INTERNAL">>, <<"kNotFound", "NOT_FOUND">>,
   <<"kUnavailable", "UNAVAILABLE">>,
   <<"kDeadlineExceeded", "DEADLINE_EXCEEDED">>,
   <<"kFailedPrecondition", "FAILED_PRECONDITION">>}

\* C11: the code the event carries when it is dispatched is the code of the
\* status the request returns: InvalidArgument after a failed parse, the
\* resolver's code after a failed resolution, and the registry's code
\* (OK on success) when the registry was called.
C11_StampedIsReturned ==
  \A t \in StartTasks :
    /\ pc[t] \in {"return", "done"} =>
         /\ sink[t].absl_status = st[t].status.code
         /\ ~hist[t].parseOk => sink[t].absl_status = "kInvalidArgument"
         /\ (hist[t].parseOk /\ hist[t].sshStatus.code # "kOk") =>
              sink[t].absl_status = hist[t].sshStatus.code
         /\ hist[t].regStart = 1 => sink[t].absl_status = hist[t].regStatus.code
    /\ pc[t] = "done" => <<sink[t].absl_status, ret[t]>> \in CodePairs

\* a request whose registry call failed has returned that failure
C11_Witness ==
  \E t \in StartTasks :
    /\ pc[t] = "done" /\ hist[t].regStart = 1
    /\ sink[t].absl_status = "kFailedPrecondition"
    /\ ret[t] = "FAILED_PRECONDITION"

\* C12: a resolver that returned a failure has left its outputs cleared:
\* the host is empty and the port is 0.
C12_OutputsClearedOnFailure ==
  \A t \in StartTasks :
    (hist[t].sshReturns = 1 /\ hist[t].sshStatus.code # "kOk") =>
      /\ st[t].instance_ip = <<>>
      /\ st[t].instance_port = 0

AllSpace(s) == \A k \in 1..Len(s) : IsSpace(s[k])

\* v is rest without its leading and trailing whitespace
IsStripOf(v, rest) ==
  /\ v # <<>> => ~IsSpace(v[1]) /\ ~IsSpace(v[Len(v)])
  /\ \E a \in 0..Len(rest) :
       /\ a + Len(v) <= Len(rest)
       /\ AllSpace(SubSeq(rest, 1, a))
       /\ SubSeq(rest, a + 1, a + Len(v)) = v
       /\ AllSpace(SubSeq(rest, a + Len(v) + 1, Len(rest)))

\* what follows the colon on the first line of text that begins with key ':'
FieldOf(text, key) ==
  LET lines == StrSplit(text, NL)
      M == KeyLines(lines, key)
      first == CHOOSE i \in M : \A j \in M : i <= j
  IN SubSeq(lines[first], Len(key) + 2, Len(lines[first]))

HasField(text, key) == KeyLines(StrSplit(text, NL), key) # {}

\* C13: once the resolver has parsed the host from an output with a Host
\* line, the host is what follows the colon without its leading and
\* trailing whitespace (empty when there is nothing else), and the resolver
\* does not fail with the host-not-parsed error.
C13_TrimmedHostFound ==
  \A t \in StartTasks :
    LET text == Concat(proc[t].script)
    IN (hist[t].run = "ok" /\ hist[t].parseValue >= 1 /\ HasField(text, kHost)) =>
         /\ IsStripOf(st[t].instance_ip, FieldOf(text, kHost))
         /\ AllSpace(FieldOf(text, kHost)) => st[t].instance_ip = <<>>
         /\ ssh[t].status.what # "Failed to parse host"

\* the resolver has returned OK with an empty host, parsed from a Host line
\* that has only whitespace after the colon
C13_Witness ==
  \E t \in StartTasks :
    LET text == Concat(proc[t].script)
    IN /\ hist[t].sshReturns = 1 /\ hist[t].run = "ok" /\ hist[t].parseValue = 2
       /\ HasField(text, kHost)
       /\ Len(FieldOf(text, kHost)) = 3 /\ AllSpace(FieldOf(text, kHost))
       /\ st[t].instance_ip = <<>>
       /\ hist[t].sshStatus.code = "kOk"

\* the Process object of task t exists: its reader thread may call the handler
ProcessAlive(t) == proc[t].state \in {"running", "exited"}

\* C14: as long as a Process object exists, and whenever its handler runs,
\* the accumulator the handler appends to is the live accumulator of the
\* same resolver invocation; on every return path the process is gone
\* before the accumulator, nothing is appended to an accumulator that is
\* gone, and nothing is appended to it by the process of another invocation.
C14_AccumulatorOutlivesProcess ==
  \A t \in Tasks :
    /\ ProcessAlive(t) => proc[t].acc = t /\ ssh[t].live
    /\ proc[t].busy => ProcessAlive(t) /\ ssh[proc[t].acc].live
    /\ ~ssh[t].live => ssh[t].output = <<>>
    /\ ssh[t].writers \subseteq {t}
    /\ \A u \in Tasks \ {t} :
         (ProcessAlive(t) /\ ProcessAlive(u)) => proc[t].acc # proc[u].acc

\* a resolver whose wait failed is leaving with output still undelivered:
\* its process is gone, its accumulator is not yet, and another resolver's
\* handler is appending to its own accumulator
C14_Witness ==
  \E t \in Tasks, u \in Tasks :
    /\ t # u
    /\ pc[t] = "ssh_unwind" /\ hist[t].run = "error"
    /\ proc[t].state = "destroyed" /\ ssh[t].live
    /\ Len(ssh[t].output) < Len(Concat(proc[t].script))
    /\ proc[u].busy /\ ssh[u].live /\ ssh[u].output # <<>>

\* C15: a StartSession whose registry call returned OK with a handle is
\* recorded on the per-instance sink of its instance, whatever the other
\* requests do meanwhile, and the aggregate sink receives only starts that
\* did not establish a session.
C15_StartedRecordedPerInstance ==
  \A t \in StartTasks :
    pc[t] \in {"return", "done"} =>
      /\ (hist[t].regStart = 1 /\ hist[t].regStatus.code = "kOk" /\ st[t].ms # NoMs) =>
           sink[t].to = {"session"} /\ sink[t].instance_id = st[t].instance_id
      /\ "multi" \in sink[t].to =>
           ~(hist[t].regStart = 1 /\ hist[t].regStatus.code = "kOk")

====
